---- MODULE Spec2Model ----
(***************************************************************************)
(* Weighted statistics entry points of rbiips (src/src/wtd_stat.cpp) and   *)
(* the process-wide flags of src/src/rbiips_utils.cpp.                     *)
(*                                                                         *)
(* Every entry point is one synchronous handler: it runs to completion     *)
(* inside BEGIN_RBIIPS / END_RBIIPS.  A handler is modelled as one action  *)
(* that computes the whole execution: the calls made on the accumulator    *)
(* (trace), the accumulator at the end (accu) and what reaches R (ret).    *)
(*                                                                         *)
(* Numbers: values and weights are small integers; statistics are exact    *)
(* rationals <<num, den>> in lowest terms; probabilities are rationals.    *)
(* The accumulators (Biips common/Accumulator.hpp) are not part of the     *)
(* sources at hand: their operations follow sections 4.1-4.3 and 7 of the  *)
(* design text.                                                            *)
(***************************************************************************)
EXTENDS Integers, Sequences, FiniteSets, TLC

VARIABLES VERBOSITY, BASE_MODULE_LOADED, values, weights, pc, call, trace, accu, ret

vars == <<VERBOSITY, BASE_MODULE_LOADED, values, weights, pc, call, trace, accu, ret>>

(***************************************************************************)
(* Bounds of the model.                                                    *)
(***************************************************************************)
MaxLen == 3
MaxProbs == 2
MaxOrder == 5

Values == {1, 2, 3}
Weights == {-1, 0, 1, 2}
ProbLevels == {<<0, 1>>, <<1, 2>>, <<1, 1>>, <<3, 2>>}

SeqsUpTo(S, n) == UNION {[1..k -> S] : k \in 0..n}

\* Elements no handler ever reads are fixed to 1: every element of sequences of
\* unequal length (rejected before any element is read), and the elements after
\* the first negative weight (the push loop ends there).
NeverReadIsOne(v, w) ==
    /\ Len(v) # Len(w) => (\A k \in 1..Len(v) : v[k] = 1) /\ (\A k \in 1..Len(w) : w[k] = 1)
    /\ Len(v) = Len(w) =>
           \A k \in 1..Len(w) : w[k] < 0 => \A j \in (k + 1)..Len(w) : v[j] = 1 /\ w[j] = 1

(***************************************************************************)
(* Exact arithmetic.                                                       *)
(***************************************************************************)
Abs(a) == IF a < 0 THEN -a ELSE a

RECURSIVE GCD(_, _)
GCD(a, b) == IF b = 0 THEN a ELSE GCD(b, a % b)

\* n/d in lowest terms, d > 0
Rat(n, d) == LET g == GCD(Abs(n), Abs(d))
                 s == IF d < 0 THEN -1 ELSE 1
             IN  <<(s * n) \div g, (s * d) \div g>>

Sign(a) == IF a < 0 THEN -1 ELSE IF a = 0 THEN 0 ELSE 1

\* p lies in [0,1]
ProbInRange(p) == 0 <= p[1] /\ p[1] <= p[2]

(***************************************************************************)
(* Calls on an accumulator, as recorded in trace.                          *)
(***************************************************************************)
Call(op) == [op |-> op, tag |-> "", x |-> 0, w |-> 0, i |-> 0]
AddFeatureCall(t) == [Call("AddFeature") EXCEPT !.tag = t]
PushCall(x, w) == [Call("Push") EXCEPT !.x = x, !.w = w]
QuantileCall(i) == [Call("Quantile") EXCEPT !.i = i]

ReadOps == {"Mean", "Variance", "Skewness", "Kurtosis", "Quantile", "Pdf", "Mode"}

(***************************************************************************)
(* WeightedMomentAccumulator (Biips::Accumulator).                         *)
(* W, S1 are always tracked; the raw power sums S2..S4 only up to the      *)
(* highest registered statistic.  err holds the condition an operation     *)
(* failed with ("" when none).                                             *)
(***************************************************************************)
TagOrder(t) == CASE t = "MEAN" -> 1
                 [] t = "VARIANCE" -> 2
                 [] t = "SKEWNESS" -> 3
                 [] t = "KURTOSIS" -> 4
                 [] OTHER -> 0

Accumulator_New ==
    [type |-> "moment", features |-> {}, inits |-> 0, n |-> 0, err |-> "",
     W |-> 0, S1 |-> 0, S2 |-> 0, S3 |-> 0, S4 |-> 0]

Accumulator_AddFeature(a, t) == [a EXCEPT !.features = @ \cup {t}]

Accumulator_Init(a) ==
    [a EXCEPT !.inits = @ + 1, !.n = 0, !.W = 0, !.S1 = 0, !.S2 = 0, !.S3 = 0, !.S4 = 0]

Tracked(a, k) == \E t \in a.features : TagOrder(t) >= k

Accumulator_Push(a, x, w) ==
    IF w < 0 THEN [a EXCEPT !.err = "InvalidArgument"]
    ELSE [a EXCEPT !.n = @ + 1,
                   !.W = @ + w,
                   !.S1 = @ + w * x,
                   !.S2 = IF Tracked(a, 2) THEN @ + w * x * x ELSE @,
                   !.S3 = IF Tracked(a, 3) THEN @ + w * x * x * x ELSE @,
                   !.S4 = IF Tracked(a, 4) THEN @ + w * x * x * x * x ELSE @]

\* W^(k-1) times the k-th central power sum, from the raw power sums
CentralA2(a) == a.W * a.S2 - a.S1 * a.S1
CentralA3(a) == a.W * a.W * a.S3 - 3 * a.W * a.S1 * a.S2 + 2 * a.S1 * a.S1 * a.S1
CentralA4(a) == a.W * a.W * a.W * a.S4 - 4 * a.W * a.W * a.S1 * a.S3
                + 6 * a.W * a.S1 * a.S1 * a.S2 - 3 * a.S1 * a.S1 * a.S1 * a.S1

Ok(v) == [ok |-> TRUE, val |-> v, err |-> ""]
Fail(e) == [ok |-> FALSE, val |-> <<0, 1>>, err |-> e]

\* mean = S1 / W
Accumulator_Mean(a) ==
    IF a.W = 0 THEN Fail("DegenerateInput") ELSE Ok(Rat(a.S1, a.W))

\* variance = M2 / W
Accumulator_Variance(a) ==
    IF a.W = 0 THEN Fail("DegenerateInput") ELSE Ok(Rat(CentralA2(a), a.W * a.W))

\* skewness = (M3 / W) / variance^1.5, kept as <<sign, num, den>> of its square
Accumulator_Skewness(a) ==
    IF a.W = 0 \/ CentralA2(a) = 0 THEN Fail("DegenerateInput")
    ELSE LET a2 == CentralA2(a)
             a3 == CentralA3(a)
         IN  Ok(<<Sign(a3)>> \o Rat(a3 * a3, a2 * a2 * a2))

\* kurtosis = (M4 / W) / variance^2
Accumulator_Kurtosis(a) ==
    IF a.W = 0 \/ CentralA2(a) = 0 THEN Fail("DegenerateInput")
    ELSE Ok(Rat(CentralA4(a), CentralA2(a) * CentralA2(a)))

(***************************************************************************)
(* WeightedQuantileAccumulator (Biips::QuantileAccumulator).               *)
(* Keeps every pushed pair; a query sorts by value and walks the           *)
(* cumulative weight.                                                      *)
(***************************************************************************)
QuantileAccumulator_New(probs) ==
    [type |-> "quantile", probs |-> probs, inits |-> 0, n |-> 0,
     err |-> IF \A k \in 1..Len(probs) : ProbInRange(probs[k]) THEN "" ELSE "InvalidArgument",
     W |-> 0, data |-> <<>>]

QuantileAccumulator_Init(a) == [a EXCEPT !.inits = @ + 1, !.n = 0, !.W = 0, !.data = <<>>]

QuantileAccumulator_Push(a, x, w) ==
    IF w < 0 THEN [a EXCEPT !.err = "InvalidArgument"]
    ELSE [a EXCEPT !.n = @ + 1, !.W = @ + w, !.data = Append(@, <<x, w>>)]

\* insert pair p after the pairs of s whose value is not larger (stable)
RECURSIVE InsertSorted(_, _)
InsertSorted(s, p) ==
    IF s = <<>> THEN <<p>>
    ELSE IF p[1] < Head(s)[1] THEN <<p>> \o s
    ELSE <<Head(s)>> \o InsertSorted(Tail(s), p)

RECURSIVE SortByValue(_)
SortByValue(s) ==
    IF s = <<>> THEN <<>>
    ELSE InsertSorted(SortByValue(SubSeq(s, 1, Len(s) - 1)), s[Len(s)])

\* first pair of the sorted sequence at which cum >= p * W
RECURSIVE ScanCumulative(_, _, _, _)
ScanCumulative(s, cum, p, W) ==
    LET c == cum + Head(s)[2]
    IN  IF Len(s) = 1 \/ c * p[2] >= p[1] * W THEN Head(s)[1]
        ELSE ScanCumulative(Tail(s), c, p, W)

QuantileAccumulator_Quantile(a, i) ==
    IF a.W = 0 THEN Fail("DegenerateInput")
    ELSE Ok(ScanCumulative(SortByValue(a.data), 0, a.probs[i], a.W))

(***************************************************************************)
(* DiscreteAccumulator / DiscreteHistogram.                                *)
(* map is a function from the distinct pushed values to their weight.      *)
(***************************************************************************)
DiscreteAccumulator_New ==
    [type |-> "discrete", inits |-> 0, n |-> 0, err |-> "", W |-> 0, map |-> <<>>]

DiscreteAccumulator_Init(a) == [a EXCEPT !.inits = @ + 1, !.n = 0, !.W = 0, !.map = <<>>]

DiscreteAccumulator_Push(a, x, w) ==
    IF w < 0 THEN [a EXCEPT !.err = "InvalidArgument"]
    ELSE [a EXCEPT !.n = @ + 1, !.W = @ + w,
                   !.map = IF x \in DOMAIN @ THEN [@ EXCEPT ![x] = @ + w]
                           ELSE [y \in (DOMAIN @) \cup {x} |-> IF y = x THEN w ELSE @[y]]]

RECURSIVE SortedSeq(_)
SortedSeq(S) ==
    IF S = {} THEN <<>>
    ELSE LET m == CHOOSE y \in S : \A z \in S : y <= z
         IN  <<m>> \o SortedSeq(S \ {m})

\* histogram: positions ascending, frequencies aligned
DiscreteAccumulator_Pdf(a) ==
    LET pos == SortedSeq(DOMAIN a.map)
    IN  [positions |-> pos, frequencies |-> [k \in 1..Len(pos) |-> a.map[pos[k]]]]

\* one pass over the sorted histogram, a later position wins only when heavier
RECURSIVE ScanMode(_, _, _, _)
ScanMode(h, k, best, bestW) ==
    IF k > Len(h.positions) THEN best
    ELSE IF h.frequencies[k] > bestW
         THEN ScanMode(h, k + 1, h.positions[k], h.frequencies[k])
         ELSE ScanMode(h, k + 1, best, bestW)

DiscreteAccumulator_Mode(a) ==
    LET h == DiscreteAccumulator_Pdf(a)
    IN  IF Len(h.positions) = 0 THEN Fail("DegenerateInput")
        ELSE Ok(ScanMode(h, 2, h.positions[1], h.frequencies[1]))

(***************************************************************************)
(* The facade: src/src/wtd_stat.cpp.                                       *)
(* An execution is what a handler body has done when it ends or throws:    *)
(* thrown ("" when it ran to its return statement), the accumulator, the   *)
(* calls made on it, and the R vector built so far (vec, names, class).    *)
(***************************************************************************)
features == <<"MEAN", "VARIANCE", "SKEWNESS", "KURTOSIS">>
names == <<"mean", "var", "skew", "kurt">>
half == <<1, 2>>

\* what a read past the end of features[] / names[] can yield: the word read as
\* a StatTag is a valid tag (all four are registered by then, MEAN stands for
\* them) or no tag at all
AnyTag == {"MEAN", "UNKNOWN"}
GarbageName == "?"

NoAccu == [type |-> "none", inits |-> 0, n |-> 0, err |-> "", W |-> 0]

Exec(thrown, a, tr) ==
    [thrown |-> thrown, accu |-> a, trace |-> tr, vec |-> <<>>, names |-> <<>>, class |-> ""]

Push(a, x, w) ==
    CASE a.type = "moment" -> Accumulator_Push(a, x, w)
      [] a.type = "quantile" -> QuantileAccumulator_Push(a, x, w)
      [] a.type = "discrete" -> DiscreteAccumulator_Push(a, x, w)

\* PushLoop with the loop bound one short: i < size - 1
RECURSIVE PushLoop_DropLast(_, _, _, _)
PushLoop_DropLast(ex, v, w, i) ==
    IF i >= Len(v) \/ ex.thrown # "" THEN ex
    ELSE LET a == Push(ex.accu, v[i], w[i])
         IN  PushLoop_DropLast([ex EXCEPT !.accu = a,
                                          !.trace = Append(@, PushCall(v[i], w[i])),
                                          !.thrown = a.err],
                               v, w, i + 1)

\* for (int i = 0; i<values_vec.size(); ++i) accu.Push(values_vec[i], weights_vec[i]);
RECURSIVE PushLoop(_, _, _, _)
PushLoop(ex, v, w, i) ==
    IF i > Len(v) \/ ex.thrown # "" THEN ex
    ELSE LET a == Push(ex.accu, v[i], w[i])
         IN  PushLoop([ex EXCEPT !.accu = a,
                                 !.trace = Append(@, PushCall(v[i], w[i])),
                                 !.thrown = a.err],
                      v, w, i + 1)

\* for (;firstFeat != lastFeat; ++firstFeat) accu.AddFeature(*firstFeat);
RECURSIVE AddFeatures(_, _, _)
AddFeatures(ex, feats, k) ==
    IF k > Len(feats) THEN ex
    ELSE AddFeatures([ex EXCEPT !.accu = Accumulator_AddFeature(@, feats[k]),
                                !.trace = Append(@, AddFeatureCall(feats[k]))],
                     feats, k + 1)

InitCall(ex, a) == [ex EXCEPT !.accu = a, !.trace = Append(@, Call("Init"))]

\* accumulate rejecting only values longer than weights
accumulate_LooseCheck(v, w, feats) ==
    IF Len(v) > Len(w) THEN Exec("LengthMismatch", NoAccu, <<>>)
    ELSE LET e1 == AddFeatures(Exec("", Accumulator_New, <<>>), feats, 1)
             e2 == InitCall(e1, Accumulator_Init(e1.accu))
         IN  PushLoop(e2, v, w, 1)

accumulate(v, w, feats) ==
    IF Len(v) # Len(w) THEN Exec("LengthMismatch", NoAccu, <<>>)
    ELSE LET e1 == AddFeatures(Exec("", Accumulator_New, <<>>), feats, 1)
             e2 == InitCall(e1, Accumulator_Init(e1.accu))
         IN  PushLoop(e2, v, w, 1)

StatOp(k) == CASE k = 1 -> "Mean" [] k = 2 -> "Variance" [] k = 3 -> "Skewness" [] k = 4 -> "Kurtosis"

StatAccessor(a, k) ==
    CASE k = 1 -> Accumulator_Mean(a)
      [] k = 2 -> Accumulator_Variance(a)
      [] k = 3 -> Accumulator_Skewness(a)
      [] k = 4 -> Accumulator_Kurtosis(a)

\* stat_vec[k-1] = accu.<k-th accessor>(): the accessor runs first and may throw
ReadStat(ex, k) ==
    IF ex.thrown # "" THEN ex
    ELSE LET r == StatAccessor(ex.accu, k)
         IN  IF r.ok
             THEN [ex EXCEPT !.trace = Append(@, Call(StatOp(k))),
                             !.vec = [j \in DOMAIN @ |-> IF j = k THEN r.val ELSE @[j]]]
             ELSE [ex EXCEPT !.trace = Append(@, Call(StatOp(k))), !.thrown = r.err]

\* features .. features + 4 whatever the order
FeatureRanges_All(order) == {features}

\* features .. features + order_s: entries past the fourth are read out of bounds
FeatureRanges(order) ==
    IF order <= 4 THEN {SubSeq(features, 1, order)}
    ELSE {features \o g : g \in [1..(order - 4) -> AnyTag]}

\* names .. names + order_s
NameRanges(order) ==
    IF order <= 4 THEN SubSeq(names, 1, order)
    ELSE names \o [j \in 1..(order - 4) |-> GarbageName]

\* the body of wtd_stat after accumulate() returned, lines 40-56
StatBody(ex0, order) ==
    LET e0 == [ex0 EXCEPT !.vec = [j \in 1..order |-> <<0, 1>>]]
        e1 == ReadStat(e0, 1)
        e2 == IF order >= 2 THEN ReadStat(e1, 2) ELSE e1
        e3 == IF order >= 3 THEN ReadStat(e2, 3) ELSE e2
        e4 == IF order >= 4 THEN ReadStat(e3, 4) ELSE e3
        e5 == [e4 EXCEPT !.names = NameRanges(order)]
    IN  IF ex0.thrown # "" THEN {ex0}
        ELSE IF e4.thrown # "" THEN {e4}
        ELSE IF order = 0 \/ order > 4
        THEN {e5, [e4 EXCEPT !.thrown = "SIGSEGV"]}
        ELSE {e5}

wtd_stat(v, w, order) ==
    UNION {StatBody(accumulate(v, w, f), order) : f \in FeatureRanges(order)}

\* wtd_mean, wtd_var, wtd_skew, wtd_kurt: one feature, one accessor
ScalarStat(v, w, k) ==
    LET e0 == accumulate(v, w, <<features[k]>>)
        r == StatAccessor(e0.accu, k)
    IN  IF e0.thrown # "" THEN e0
        ELSE IF r.ok
        THEN [e0 EXCEPT !.trace = Append(@, Call(StatOp(k))), !.vec = <<r.val>>]
        ELSE [e0 EXCEPT !.trace = Append(@, Call(StatOp(k))), !.thrown = r.err]

wtd_mean(v, w) == ScalarStat(v, w, 1)
wtd_var(v, w) == ScalarStat(v, w, 2)
wtd_skew(v, w) == ScalarStat(v, w, 3)
wtd_kurt(v, w) == ScalarStat(v, w, 4)

\* Rcpp::CharacterVector(probs): a probability as R prints it
ProbLabel(p) ==
    CASE p = <<0, 1>> -> "0"
      [] p = <<1, 4>> -> "0.25"
      [] p = <<1, 2>> -> "0.5"
      [] p = <<3, 4>> -> "0.75"
      [] p = <<1, 1>> -> "1"
      [] p = <<3, 2>> -> "1.5"

\* Rcpp::CharacterVector x(vec.begin(), vec.end()): a position as a string
PositionLabel(x) == ToString(x)

\* QuantileLoop with the loop bound one short: i < size - 1
RECURSIVE QuantileLoop_DropLast(_, _)
QuantileLoop_DropLast(ex, i) ==
    IF i + 1 >= Len(ex.accu.probs) \/ ex.thrown # "" THEN ex
    ELSE LET r == QuantileAccumulator_Quantile(ex.accu, i + 1)
         IN  QuantileLoop_DropLast(
                 IF r.ok
                 THEN [ex EXCEPT !.trace = Append(@, QuantileCall(i)),
                                 !.vec = [j \in DOMAIN @ |-> IF j = i + 1 THEN r.val ELSE @[j]]]
                 ELSE [ex EXCEPT !.trace = Append(@, QuantileCall(i)), !.thrown = r.err],
                 i + 1)

\* QuantileLoop storing every estimate in quant_vec[0]
RECURSIVE QuantileLoop_IndexZero(_, _)
QuantileLoop_IndexZero(ex, i) ==
    IF i >= Len(ex.accu.probs) \/ ex.thrown # "" THEN ex
    ELSE LET r == QuantileAccumulator_Quantile(ex.accu, i + 1)
         IN  QuantileLoop_IndexZero(
                 IF r.ok
                 THEN [ex EXCEPT !.trace = Append(@, QuantileCall(i)),
                                 !.vec = [j \in DOMAIN @ |-> IF j = 1 THEN r.val ELSE @[j]]]
                 ELSE [ex EXCEPT !.trace = Append(@, QuantileCall(i)), !.thrown = r.err],
                 i + 1)

\* quant_vec[i] = accu.Quantile(i), i = 0 .. probs_vec.size()-1
RECURSIVE QuantileLoop(_, _)
QuantileLoop(ex, i) ==
    IF i >= Len(ex.accu.probs) \/ ex.thrown # "" THEN ex
    ELSE LET r == QuantileAccumulator_Quantile(ex.accu, i + 1)
         IN  QuantileLoop(
                 IF r.ok
                 THEN [ex EXCEPT !.trace = Append(@, QuantileCall(i)),
                                 !.vec = [j \in DOMAIN @ |-> IF j = i + 1 THEN r.val ELSE @[j]]]
                 ELSE [ex EXCEPT !.trace = Append(@, QuantileCall(i)), !.thrown = r.err],
                 i + 1)

wtd_quantile(v, w, probs) ==
    IF Len(v) # Len(w) THEN Exec("LengthMismatch", NoAccu, <<>>)
    ELSE LET a0 == QuantileAccumulator_New(probs)
             e0 == [Exec("", a0, <<>>) EXCEPT !.vec = [j \in 1..Len(probs) |-> 0]]
             e1 == PushLoop(InitCall(e0, QuantileAccumulator_Init(a0)), v, w, 1)
             e2 == QuantileLoop(e1, 0)
         IN  IF a0.err # "" THEN Exec(a0.err, a0, <<>>)
             ELSE IF e2.thrown # "" THEN e2
             ELSE [e2 EXCEPT !.names = [j \in 1..Len(probs) |-> ProbLabel(probs[j])]]

\* wtd_median asking for the level 1 instead of 0.5
wtd_median_Upper(v, w) ==
    LET e == wtd_quantile(v, w, <<<<1, 1>>>>) IN [e EXCEPT !.names = <<>>]

wtd_median(v, w) ==
    IF Len(v) # Len(w) THEN Exec("LengthMismatch", NoAccu, <<>>)
    ELSE LET proba == <<half>>
             a0 == QuantileAccumulator_New(proba)
             e1 == PushLoop(InitCall(Exec("", a0, <<>>), QuantileAccumulator_Init(a0)), v, w, 1)
             r == QuantileAccumulator_Quantile(e1.accu, 1)
         IN  IF a0.err # "" THEN Exec(a0.err, a0, <<>>)
             ELSE IF e1.thrown # "" THEN e1
             ELSE IF r.ok
             THEN [e1 EXCEPT !.trace = Append(@, QuantileCall(0)), !.vec = <<r.val>>]
             ELSE [e1 EXCEPT !.trace = Append(@, QuantileCall(0)), !.thrown = r.err]

\* wtd_table that fills the table from vec before vec = hist.GetFrequencies()
wtd_table_PositionsKept(v, w) ==
    IF Len(v) # Len(w) THEN Exec("LengthMismatch", NoAccu, <<>>)
    ELSE LET a0 == DiscreteAccumulator_New
             e1 == PushLoop(InitCall(Exec("", a0, <<>>), DiscreteAccumulator_Init(a0)), v, w, 1)
             hist == DiscreteAccumulator_Pdf(e1.accu)
             x == [j \in 1..Len(hist.positions) |-> PositionLabel(hist.positions[j])]
         IN  IF e1.thrown # "" THEN e1
             ELSE [e1 EXCEPT !.trace = Append(@, Call("Pdf")),
                             !.vec = hist.positions,
                             !.names = x,
                             !.class = "table"]

wtd_table(v, w) ==
    IF Len(v) # Len(w) THEN Exec("LengthMismatch", NoAccu, <<>>)
    ELSE LET a0 == DiscreteAccumulator_New
             e1 == PushLoop(InitCall(Exec("", a0, <<>>), DiscreteAccumulator_Init(a0)), v, w, 1)
             hist == DiscreteAccumulator_Pdf(e1.accu)
             x == [j \in 1..Len(hist.positions) |-> PositionLabel(hist.positions[j])]
         IN  IF e1.thrown # "" THEN e1
             ELSE [e1 EXCEPT !.trace = Append(@, Call("Pdf")),
                             !.vec = hist.frequencies,
                             !.names = x,
                             !.class = "table"]

\* wtd_mode pushing every value with weight 1
wtd_mode_Unweighted(v, w) ==
    IF Len(v) # Len(w) THEN Exec("LengthMismatch", NoAccu, <<>>)
    ELSE LET a0 == DiscreteAccumulator_New
             e1 == PushLoop(InitCall(Exec("", a0, <<>>), DiscreteAccumulator_Init(a0)),
                            v, [k \in DOMAIN w |-> 1], 1)
             r == DiscreteAccumulator_Mode(e1.accu)
         IN  IF e1.thrown # "" THEN e1
             ELSE IF r.ok
             THEN [e1 EXCEPT !.trace = Append(@, Call("Mode")), !.vec = <<r.val>>]
             ELSE [e1 EXCEPT !.trace = Append(@, Call("Mode")), !.thrown = r.err]

wtd_mode(v, w) ==
    IF Len(v) # Len(w) THEN Exec("LengthMismatch", NoAccu, <<>>)
    ELSE LET a0 == DiscreteAccumulator_New
             e1 == PushLoop(InitCall(Exec("", a0, <<>>), DiscreteAccumulator_Init(a0)), v, w, 1)
             r == DiscreteAccumulator_Mode(e1.accu)
         IN  IF e1.thrown # "" THEN e1
             ELSE IF r.ok
             THEN [e1 EXCEPT !.trace = Append(@, Call("Mode")), !.vec = <<r.val>>]
             ELSE [e1 EXCEPT !.trace = Append(@, Call("Mode")), !.thrown = r.err]

(***************************************************************************)
(* BEGIN_RBIIPS ... END_RBIIPS (src/src/rbiips_utils.h): an exception      *)
(* leaving the body is forwarded to R as an error and the vector built so  *)
(* far is dropped; a fault of the process is not caught.                   *)
(***************************************************************************)
NoValue(kind, e) == [kind |-> kind, err |-> e, vec |-> <<>>, names |-> <<>>, class |-> ""]

\* END_RBIIPS handing R the vector built so far along with the error
END_RBIIPS_Partial(ex) ==
    IF ex.thrown = "" THEN [kind |-> "value", err |-> "", vec |-> ex.vec,
                            names |-> ex.names, class |-> ex.class]
    ELSE IF ex.thrown = "SIGSEGV" THEN NoValue("crash", "")
    ELSE [kind |-> "error", err |-> ex.thrown, vec |-> ex.vec,
          names |-> ex.names, class |-> ex.class]

END_RBIIPS(ex) ==
    IF ex.thrown = "" THEN [kind |-> "value", err |-> "", vec |-> ex.vec,
                            names |-> ex.names, class |-> ex.class]
    ELSE IF ex.thrown = "SIGSEGV" THEN NoValue("crash", "")
    ELSE NoValue("error", ex.thrown)

(***************************************************************************)
(* The state machine.  pc = "R": control is in R, no handler frame exists. *)
(* pc = "returned": a handler has run and its frame is being left; call,   *)
(* trace, accu and ret describe that request.                              *)
(***************************************************************************)
NoCall == [entry |-> "", order |-> 0, probs |-> <<>>]

Init ==
    /\ VERBOSITY = 1
    /\ BASE_MODULE_LOADED = FALSE
    /\ values \in SeqsUpTo(Values, MaxLen)
    /\ weights \in SeqsUpTo(Weights, MaxLen)
    /\ NeverReadIsOne(values, weights)
    /\ pc = "R"
    /\ call = NoCall
    /\ trace = <<>>
    /\ accu = NoAccu
    /\ ret = NoValue("none", "")

\* one .Call from R: the whole handler body runs inside BEGIN_RBIIPS / END_RBIIPS
Request(entry, order, probs, ex) ==
    /\ pc' = "returned"
    /\ call' = [entry |-> entry, order |-> order, probs |-> probs]
    /\ trace' = ex.trace
    /\ accu' = ex.accu
    /\ ret' = END_RBIIPS(ex)
    /\ UNCHANGED <<VERBOSITY, BASE_MODULE_LOADED, values, weights>>

Call_wtd_stat ==
    /\ pc = "R"
    /\ \E order \in 0..MaxOrder : \E ex \in wtd_stat(values, weights, order) :
           Request("wtd_stat", order, <<>>, ex)

Call_wtd_mean == pc = "R" /\ Request("wtd_mean", 0, <<>>, wtd_mean(values, weights))
Call_wtd_var == pc = "R" /\ Request("wtd_var", 0, <<>>, wtd_var(values, weights))
Call_wtd_skew == pc = "R" /\ Request("wtd_skew", 0, <<>>, wtd_skew(values, weights))
Call_wtd_kurt == pc = "R" /\ Request("wtd_kurt", 0, <<>>, wtd_kurt(values, weights))

\* the probability vectors R passes: when a level is out of range the
\* constructor rejects the vector whatever the others are, so such a vector
\* holds out-of-range levels only
ProbSeqs ==
    {p \in SeqsUpTo(ProbLevels, MaxProbs) :
        (\A k \in 1..Len(p) : ProbInRange(p[k])) \/ (\A k \in 1..Len(p) : ~ProbInRange(p[k]))}

Call_wtd_quantile ==
    /\ pc = "R"
    /\ \E probs \in ProbSeqs :
           Request("wtd_quantile", 0, probs, wtd_quantile(values, weights, probs))

Call_wtd_median == pc = "R" /\ Request("wtd_median", 0, <<>>, wtd_median(values, weights))
Call_wtd_table == pc = "R" /\ Request("wtd_table", 0, <<>>, wtd_table(values, weights))
Call_wtd_mode == pc = "R" /\ Request("wtd_mode", 0, <<>>, wtd_mode(values, weights))

\* the handler's frame is left: the accumulator and the vectors it built are
\* destroyed, R has taken the value or the error; a faulted process goes on nowhere
Return ==
    /\ pc = "returned"
    /\ ret.kind # "crash"
    /\ pc' = "R"
    /\ call' = NoCall
    /\ trace' = <<>>
    /\ accu' = NoAccu
    /\ ret' = NoValue("none", "")
    /\ UNCHANGED <<VERBOSITY, BASE_MODULE_LOADED, values, weights>>

\* loadBaseModule() either returns or throws into VOID_END_RBIIPS
load_base_module ==
    /\ pc = "R"
    /\ \E loaded \in BOOLEAN :
           BASE_MODULE_LOADED' = IF loaded THEN TRUE ELSE BASE_MODULE_LOADED
    /\ UNCHANGED <<VERBOSITY, values, weights, pc, call, trace, accu, ret>>

Next ==
    \/ Call_wtd_stat
    \/ Call_wtd_mean
    \/ Call_wtd_var
    \/ Call_wtd_skew
    \/ Call_wtd_kurt
    \/ Call_wtd_quantile
    \/ Call_wtd_median
    \/ Call_wtd_table
    \/ Call_wtd_mode
    \/ Return
    \/ load_base_module

Spec == Init /\ [][Next]_vars

(***************************************************************************)
(* Reference quantities, computed from the request's inputs alone.         *)
(***************************************************************************)
RECURSIVE SumWhere(_, _)
SumWhere(w, K) ==
    IF K = {} THEN 0
    ELSE LET k == CHOOSE j \in K : TRUE IN w[k] + SumWhere(w, K \ {k})

Returned(entry) == pc = "returned" /\ call.entry = entry
SameLength == Len(values) = Len(weights)
ValidStream == SameLength /\ \A k \in 1..Len(weights) : weights[k] >= 0
TotalWeight == SumWhere(weights, 1..Len(weights))
PushedValues == {values[k] : k \in 1..Len(values)}
WeightOf(x) == SumWhere(weights, {k \in 1..Len(values) : values[k] = x})
CumWeight(x) == SumWhere(weights, {k \in 1..Len(values) : values[k] <= x})

IsRead(c) == c.op \in ReadOps
NoPush == \A k \in 1..Len(trace) : trace[k].op # "Push"
CountOp(op) == Cardinality({k \in 1..Len(trace) : trace[k].op = op})
Failed(e) == ret.kind = "error" /\ ret.err = e

StatEntries == {"wtd_stat", "wtd_mean", "wtd_var", "wtd_skew", "wtd_kurt"}
Entries == StatEntries \cup {"wtd_quantile", "wtd_median", "wtd_table", "wtd_mode"}

(***************************************************************************)
(* C1: whichever entry point is called, values and weights of different    *)
(* length make the request fail with LengthMismatch, and no Push is made   *)
(* on any accumulator.                                                     *)
(***************************************************************************)
C1_LengthMismatch ==
    (pc = "returned" /\ ~SameLength) =>
        /\ call.entry \in Entries
        /\ Failed("LengthMismatch")
        /\ NoPush

C1_Witness ==
    /\ Returned("wtd_stat") /\ Len(values) = 3 /\ Len(weights) = 2
    /\ Failed("LengthMismatch")

(***************************************************************************)
(* C2: a wtd_stat request whose order is outside 1..4 is rejected with     *)
(* InvalidArgument before any Push, and returns no statistic vector.       *)
(* The code never looks at the order.                                      *)
(***************************************************************************)
C2_OrderRejected ==
    (Returned("wtd_stat") /\ SameLength /\ call.order \notin 1..4) =>
        /\ Failed("InvalidArgument")
        /\ NoPush

(***************************************************************************)
(* C3 as stated: with total pushed weight zero (no pair, or all weights    *)
(* zero) wtd_mean, wtd_stat, wtd_quantile and wtd_median return an error,  *)
(* never a result.                                                         *)
(***************************************************************************)
ZeroWeight == SameLength /\ \A k \in 1..Len(weights) : weights[k] = 0

C3_ZeroWeightAlwaysFails ==
    (pc = "returned" /\ ZeroWeight
     /\ call.entry \in {"wtd_mean", "wtd_stat", "wtd_quantile", "wtd_median"}) =>
        ret.kind = "error"

(***************************************************************************)
(* C3 amended: with total pushed weight zero every accessor that is read   *)
(* fails with DegenerateInput, so the moment entry points and wtd_median   *)
(* fail with DegenerateInput, and so does wtd_quantile when it is given at *)
(* least one probability level (out-of-range levels are rejected with      *)
(* InvalidArgument first); wtd_quantile with no probability level makes no *)
(* query and returns an empty vector.                                      *)
(***************************************************************************)
C3_ZeroWeightFails ==
    (pc = "returned" /\ ZeroWeight) =>
        /\ call.entry \in StatEntries \cup {"wtd_median"} => Failed("DegenerateInput")
        /\ (call.entry = "wtd_quantile" /\ call.probs # <<>>) =>
               IF \A k \in 1..Len(call.probs) : ProbInRange(call.probs[k])
               THEN Failed("DegenerateInput") /\ trace[Len(trace)] = QuantileCall(0)
               ELSE Failed("InvalidArgument")
        /\ (call.entry = "wtd_quantile" /\ call.probs = <<>>) =>
               ret.kind = "value" /\ ret.vec = <<>> /\ CountOp("Quantile") = 0

C3_Witness ==
    /\ Returned("wtd_quantile") /\ Len(values) = 2 /\ ZeroWeight
    /\ Len(call.probs) = 2 /\ Failed("DegenerateInput")

(***************************************************************************)
(* C4: wtd_stat with order n in 1..4 registers exactly the first n of      *)
(* MEAN, VARIANCE, SKEWNESS, KURTOSIS, all before Init; it reads only the  *)
(* first n accessors, in that order; and a returned vector has n entries,  *)
(* entry k being the k-th accessor's value, named by the first n of        *)
(* "mean", "var", "skew", "kurt".                                          *)
(***************************************************************************)
C4_StatShape ==
    (Returned("wtd_stat") /\ SameLength /\ call.order \in 1..4) =>
        LET n == call.order
            reads == SelectSeq(trace, IsRead)
        IN  /\ Len(trace) >= n + 1
            /\ \A k \in 1..n : trace[k] = AddFeatureCall(features[k])
            /\ trace[n + 1].op = "Init"
            /\ CountOp("AddFeature") = n
            /\ accu.features = {features[k] : k \in 1..n}
            /\ Len(reads) <= n
            /\ \A k \in 1..Len(reads) : reads[k].op = StatOp(k)
            /\ ret.kind # "crash"
            /\ ret.kind = "value" =>
                   /\ Len(reads) = n
                   /\ Len(ret.vec) = n
                   /\ \A k \in 1..n : LET r == StatAccessor(accu, k)
                                      IN  r.ok /\ ret.vec[k] = r.val
                   /\ ret.names = SubSeq(names, 1, n)

C4_Witness ==
    /\ Returned("wtd_stat") /\ call.order = 3 /\ ret.kind = "value"
    /\ Len(ret.vec) = 3 /\ ret.vec[3][1] # 0

(***************************************************************************)
(* C5: wtd_quantile over a stream of total weight W > 0 returns one entry  *)
(* per probability level, entry i being the smallest pushed value x whose  *)
(* cumulative weight (all pairs with value <= x) is >= probs[i] * W,       *)
(* whatever the order of the pairs.                                        *)
(***************************************************************************)
InverseCDF(p) ==
    LET Q == {x \in PushedValues : CumWeight(x) * p[2] >= p[1] * TotalWeight}
    IN  CHOOSE x \in Q : \A y \in Q : x <= y

C5_InverseCDF ==
    (Returned("wtd_quantile") /\ ValidStream /\ TotalWeight > 0
     /\ \A k \in 1..Len(call.probs) : ProbInRange(call.probs[k])) =>
        /\ ret.kind = "value"
        /\ Len(ret.vec) = Len(call.probs)
        /\ \A i \in 1..Len(call.probs) : ret.vec[i] = InverseCDF(call.probs[i])
        /\ ret.names = [i \in 1..Len(call.probs) |-> ProbLabel(call.probs[i])]

C5_Witness ==
    /\ Returned("wtd_quantile") /\ ret.kind = "value"
    /\ Len(values) = 3 /\ values[1] > values[2] /\ values[2] < values[3]
    /\ call.probs = <<<<1, 1>>, <<1, 2>>>>
    /\ ret.vec[1] > ret.vec[2]

(***************************************************************************)
(* C6: wtd_median gives what wtd_quantile gives for the single level 0.5   *)
(* on the same values and weights: the same value or the same error, after *)
(* the same calls on an accumulator built with P = {0.5}.                  *)
(***************************************************************************)
C6_MedianIsQuantileHalf ==
    Returned("wtd_median") =>
        LET q == wtd_quantile(values, weights, <<<<1, 2>>>>)
            r == END_RBIIPS(q)
        IN  /\ ret.kind = r.kind
            /\ ret.err = r.err
            /\ ret.vec = r.vec
            /\ trace = q.trace
            /\ accu = q.accu
            /\ ret.kind = "value" =>
                   /\ accu.probs = <<<<1, 2>>>>
                   /\ CountOp("Init") = 1
                   /\ trace[Len(trace)] = QuantileCall(0)

C6_Witness ==
    /\ Returned("wtd_median") /\ ret.kind = "value"
    /\ Len(values) = 3 /\ ret.vec[1] = 2 /\ values[1] = 3

(***************************************************************************)
(* C7: the table of wtd_table lists each distinct pushed value once, in    *)
(* ascending order, with at the same index the sum of the weights pushed   *)
(* with that value; the frequencies sum to the total weight, labels and    *)
(* frequencies have the same length, and no pair gives an empty table.     *)
(***************************************************************************)
C7_Table ==
    (Returned("wtd_table") /\ ValidStream) =>
        LET pos == DiscreteAccumulator_Pdf(accu).positions
        IN  /\ ret.kind = "value" /\ ret.class = "table"
            /\ Len(ret.names) = Len(ret.vec)
            /\ Len(ret.vec) = Cardinality(PushedValues)
            /\ Len(pos) = Len(ret.vec)
            /\ {pos[k] : k \in 1..Len(pos)} = PushedValues
            /\ \A j, k \in 1..Len(pos) : j < k => pos[j] < pos[k]
            /\ \A k \in 1..Len(pos) :
                   ret.names[k] = ToString(pos[k]) /\ ret.vec[k] = WeightOf(pos[k])
            /\ SumWhere(ret.vec, 1..Len(ret.vec)) = TotalWeight
            /\ values = <<>> => ret.vec = <<>>

C7_Witness ==
    /\ Returned("wtd_table") /\ values = <<3, 1, 3>> /\ weights = <<1, 2, 1>>
    /\ ret.names = <<"1", "3">> /\ ret.vec = <<2, 2>>

(***************************************************************************)
(* C8: wtd_mode over a non-empty stream returns a pushed value of maximal  *)
(* accumulated weight, the smallest such value when several share the      *)
(* maximum; over the empty stream it fails with DegenerateInput.           *)
(***************************************************************************)
C8_Mode ==
    (Returned("wtd_mode") /\ ValidStream) =>
        IF values = <<>> THEN Failed("DegenerateInput")
        ELSE /\ ret.kind = "value"
             /\ Len(ret.vec) = 1
             /\ ret.vec[1] \in PushedValues
             /\ \A x \in PushedValues :
                    /\ WeightOf(x) <= WeightOf(ret.vec[1])
                    /\ WeightOf(x) = WeightOf(ret.vec[1]) => ret.vec[1] <= x

C8_Witness ==
    /\ Returned("wtd_mode") /\ values = <<3, 2, 1>> /\ weights = <<2, 1, 2>>
    /\ ret.kind = "value" /\ ret.vec = <<1>>

(***************************************************************************)
(* C9 as stated: in every request that passes the length check, the        *)
(* AddFeature calls come first, Init is called exactly once and before the *)
(* first Push, pair i is pushed exactly once and before pair i+1 (n pushes *)
(* for n pairs), and the accessor reads come after the last Push.          *)
(***************************************************************************)
C9_FullProtocol ==
    (pc = "returned" /\ SameLength) =>
        LET nf == CountOp("AddFeature")
            n == Len(values)
        IN  /\ Len(trace) >= nf + 1 + n
            /\ \A k \in 1..nf : trace[k].op = "AddFeature"
            /\ trace[nf + 1].op = "Init"
            /\ CountOp("Init") = 1
            /\ \A k \in 1..n : trace[nf + 1 + k] = PushCall(values[k], weights[k])
            /\ CountOp("Push") = n
            /\ \A k \in (nf + 2 + n)..Len(trace) : trace[k].op \in ReadOps

(***************************************************************************)
(* C9 amended: in every request that passes the length check the calls on  *)
(* the one accumulator follow the fixed protocol as far as the request     *)
(* gets: no call at all when the constructor rejects the probability       *)
(* levels; otherwise the AddFeature calls, then Init exactly once, then    *)
(* the pairs in input order, each at most once, up to and including the    *)
(* first pair whose Push fails on a negative weight (all n pairs when none *)
(* fails); accessor reads are made only after all n pushes succeeded, and  *)
(* no Push follows a read.                                                 *)
(***************************************************************************)
FirstNegative ==
    LET neg == {k \in 1..Len(weights) : weights[k] < 0}
    IN  IF neg = {} THEN 0 ELSE CHOOSE k \in neg : \A j \in neg : k <= j

C9_Protocol ==
    (pc = "returned" /\ SameLength) =>
        IF accu.inits = 0
        THEN /\ call.entry = "wtd_quantile"
             /\ \E k \in 1..Len(call.probs) : ~ProbInRange(call.probs[k])
             /\ trace = <<>>
             /\ Failed("InvalidArgument")
        ELSE LET nf == CountOp("AddFeature")
                 n == Len(values)
                 m == IF FirstNegative = 0 THEN n ELSE FirstNegative
             IN  /\ Len(trace) >= nf + 1 + m
                 /\ \A k \in 1..nf : trace[k].op = "AddFeature"
                 /\ trace[nf + 1].op = "Init"
                 /\ CountOp("Init") = 1 /\ accu.inits = 1
                 /\ \A k \in 1..m : trace[nf + 1 + k] = PushCall(values[k], weights[k])
                 /\ CountOp("Push") = m
                 /\ \A k \in (nf + 2 + m)..Len(trace) : trace[k].op \in ReadOps
                 /\ FirstNegative # 0 => Len(trace) = nf + 1 + m /\ Failed("InvalidArgument")
                 /\ accu.n = IF FirstNegative = 0 THEN n ELSE m - 1

C9_Witness ==
    /\ Returned("wtd_stat") /\ call.order = 2 /\ ret.kind = "value"
    /\ Len(values) = 3 /\ Len(trace) = 8
    /\ trace[8].op = "Variance" /\ trace[6] = PushCall(values[3], weights[3])

(***************************************************************************)
(* C10: a request that fails with LengthMismatch, InvalidArgument or       *)
(* DegenerateInput hands R an error and no vector, not even the part       *)
(* already filled, and changes neither VERBOSITY nor BASE_MODULE_LOADED;   *)
(* the accumulator of a request holds that request's pushes only and is    *)
(* gone when control is back in R, so the state a failed request leaves    *)
(* behind is the state it started from.                                    *)
(***************************************************************************)
C10_FailedRequestFrame ==
    [][/\ (pc = "R" /\ pc' = "returned") =>
              /\ <<call, trace, accu, ret>> = <<NoCall, <<>>, NoAccu, NoValue("none", "")>>
              /\ accu'.inits <= 1
              /\ accu'.n = Cardinality({k \in 1..Len(trace') :
                                           trace'[k].op = "Push" /\ trace'[k].w >= 0})
              /\ ret'.kind \in {"value", "error", "crash"}
              /\ ret'.kind = "error" =>
                     /\ ret'.err \in {"LengthMismatch", "InvalidArgument", "DegenerateInput"}
                     /\ ret'.vec = <<>>
                     /\ ret'.names = <<>>
                     /\ ret'.class = ""
                     /\ VERBOSITY' = VERBOSITY
                     /\ BASE_MODULE_LOADED' = BASE_MODULE_LOADED
       /\ (pc = "returned" /\ pc' = "R") =>
              /\ VERBOSITY' = VERBOSITY
              /\ BASE_MODULE_LOADED' = BASE_MODULE_LOADED
              /\ <<call', trace', accu', ret'>> = <<NoCall, <<>>, NoAccu, NoValue("none", "")>>
      ]_vars

C10_Witness ==
    /\ Returned("wtd_stat") /\ call.order = 4 /\ Failed("DegenerateInput")
    /\ BASE_MODULE_LOADED
    /\ Len(values) = 2 /\ CountOp("Variance") = 1 /\ CountOp("Skewness") = 1

====
